---------------------------- MODULE Spec2Model ----------------------------
(***************************************************************************)
(* A model of the hydraulic erosion simulator of erosion.py.               *)
(*                                                                         *)
(* Python floats are modelled as fixed-point numbers: an integer n stands  *)
(* for n / SCALE.  The one product that does not stay on that lattice (the *)
(* amount of sediment a droplet picks up) is rounded down to it.           *)
(***************************************************************************)
EXTENDS Integers, Sequences, FiniteSets, TLC

\* ------------------------------------------------------------------ bounds
W == 4              \* map.shape[0]
H == 5              \* map.shape[1]
Cycles == 2         \* the `cycles` argument of erode_landscape
Iterations == 2     \* the `iterations_per_cycle` argument of erode_landscape
MaxRock == 3        \* largest initial rock depth of the lone column (ColSpec)
MaxSediment == 3    \* deposits on the lone column stop at this depth (ColSpec)

\* --------------------------------------------------------------- constants
SCALE == 10 * 10 * 10                       \* three decimal places

EROSION_STRENGTH == SCALE \div 100          \* .01
SEDIMENTATION_STRENGTH == SCALE \div 10     \* .1
DROP_CAPAC == 1 * SCALE
STEEPNESS_COEFF == 1
MAX_SED_PER_TILE == 1 * SCALE
LOWEST_INIT == 1000000 * SCALE              \* lowest = 1000000

Max(a, b) == IF a >= b THEN a ELSE b
Min(a, b) == IF a <= b THEN a ELSE b

Cells == (0 .. W - 1) \X (0 .. H - 1)

VARIABLES
    map,          \* MapGen.map: cell -> TerrainColumn
    mesh,         \* erosion_mesh of the running erosion_cycle: cell -> [ero, dep]
    drop,         \* the ErosionDrop of the running simulate_erosion_drop
    vector,       \* local of simulate_erosion_drop
    steepness,    \* local of simulate_erosion_drop
    path_length,  \* local of simulate_erosion_drop
    pc,           \* the program point
    cycle_i,      \* loop index of erode_landscape
    drop_i,       \* loop index of the droplet loop of erosion_cycle
    col,          \* a TerrainColumn on its own (ColSpec)
    iters,        \* history: iterations of the while loop made for this droplet
    picked,       \* history: what this droplet added to the erosion channel
    deposited,    \* history: what this droplet added to the deposition channel
    applied,      \* history: times the mesh was applied to the map in this cycle
    rendered,     \* history: calls of print_self made by erode_landscape
    quit_seen     \* history: the last events read held a pygame.QUIT

vars == <<map, mesh, drop, vector, steepness, path_length, pc, cycle_i, drop_i,
          col, iters, picked, deposited, applied, rendered, quit_seen>>

\* ----------------------------------------------------------- TerrainColumn
TerrainColumn(height) == [rock_depth |-> height, sediment_depth |-> 0]

\* erode without `self.sediment_depth = 0`
erode_keeps_deficit(c, depth) ==
    LET s1 == c.sediment_depth - depth
        r1 == IF s1 < 0 THEN c.rock_depth + s1 ELSE c.rock_depth
        r2 == IF r1 <= 0 THEN 1 * SCALE ELSE r1
    IN  [rock_depth |-> r2, sediment_depth |-> s1]

erode(c, depth) ==
    LET s1 == c.sediment_depth - depth
        r1 == IF s1 < 0 THEN c.rock_depth + s1 ELSE c.rock_depth
        s2 == IF s1 < 0 THEN 0 ELSE s1
        r2 == IF r1 <= 0 THEN 1 * SCALE ELSE r1
    IN  [rock_depth |-> r2, sediment_depth |-> s2]

deposit(c, depth) == [c EXCEPT !.sediment_depth = @ + depth]

height(c) == c.rock_depth + c.sediment_depth

\* -------------------------------------------------------------- ErosionDrop
ErosionDrop(x, y) ==
    [x |-> x, y |-> y, sediment |-> 0, sediment_capacity |-> DROP_CAPAC]

\* ------------------------------------------------------------------ MapGen
\* The pairs (i, j) in the order the two nested range(-1, 2) loops visit them.
\* the scan that leaves out the cell the droplet is on
ScanOrderWithoutCentre ==
    << <<-1, -1>>, <<-1, 0>>, <<-1, 1>>,
       << 0, -1>>,             << 0, 1>>,
       << 1, -1>>, << 1, 0>>, << 1, 1>> >>

ScanOrder ==
    << <<-1, -1>>, <<-1, 0>>, <<-1, 1>>,
       << 0, -1>>, << 0, 0>>, << 0, 1>>,
       << 1, -1>>, << 1, 0>>, << 1, 1>> >>

OutOfMap(x, y) == (x < 0 \/ x >= W) \/ (y < 0 \/ y >= H)

\* current_height *= 1.4.  The result is only ever compared with `lowest`, an
\* integer of the lattice, and floor(q) < n iff q < n for an integer n.
Penalized(h) == (h * 14) \div 10

RECURSIVE scan(_, _, _, _, _, _)
scan(m, x, y, k, lowest, vec) ==
    IF k > Len(ScanOrder)
    THEN [vector |-> vec, steepness |-> height(m[<<x, y>>]) - lowest]
    ELSE LET i == ScanOrder[k][1]
             j == ScanOrder[k][2]
         IN  IF OutOfMap(x + i, y + j)
             THEN [vector |-> <<0, 0>>, steepness |-> 0]
             ELSE LET h == height(m[<<x + i, y + j>>])
                      current_height == IF i # 0 /\ j # 0 THEN Penalized(h) ELSE h
                  IN  IF current_height < lowest
                      THEN scan(m, x, y, k + 1, h, <<i, j>>)
                      ELSE scan(m, x, y, k + 1, lowest, vec)

\* the scan with `continue` in place of `return [(0,0), 0]`
RECURSIVE scan_skipping_border(_, _, _, _, _, _)
scan_skipping_border(m, x, y, k, lowest, vec) ==
    IF k > Len(ScanOrder)
    THEN [vector |-> vec, steepness |-> height(m[<<x, y>>]) - lowest]
    ELSE LET i == ScanOrder[k][1]
             j == ScanOrder[k][2]
         IN  IF OutOfMap(x + i, y + j)
             THEN scan_skipping_border(m, x, y, k + 1, lowest, vec)
             ELSE LET h == height(m[<<x + i, y + j>>])
                      current_height == IF i # 0 /\ j # 0 THEN Penalized(h) ELSE h
                  IN  IF current_height < lowest
                      THEN scan_skipping_border(m, x, y, k + 1, h, <<i, j>>)
                      ELSE scan_skipping_border(m, x, y, k + 1, lowest, vec)

downhill_skipping_border(m, x, y) ==
    scan_skipping_border(m, x, y, 1, LOWEST_INIT, <<0, 0>>)

find_downhill_vector_steepness(m, x, y) == scan(m, x, y, 1, LOWEST_INIT, <<0, 0>>)

\* steepness ** STEEPNESS_COEFF on the lattice
RECURSIVE Pow(_, _)
Pow(s, n) == IF n = 0 THEN SCALE ELSE (s * Pow(s, n - 1)) \div SCALE

sediment_taken(d, s) ==
    ((d.sediment_capacity - d.sediment) * EROSION_STRENGTH * Pow(s, STEEPNESS_COEFF))
        \div (SCALE * SCALE)

\* handle_sediment with `<` for the `<=` of its first test
handle_sediment_strict(d, erosion_mesh, s) ==
    LET at == <<d.x, d.y>> IN
    IF d.sediment < d.sediment_capacity - EROSION_STRENGTH
    THEN [drop |-> [d EXCEPT !.sediment = @ + sediment_taken(d, s)],
          mesh |-> [erosion_mesh EXCEPT ![at].ero = @ + sediment_taken(d, s)]]
    ELSE IF d.sediment >= SEDIMENTATION_STRENGTH
    THEN [drop |-> [d EXCEPT !.sediment = @ - SEDIMENTATION_STRENGTH],
          mesh |-> [erosion_mesh EXCEPT ![at].dep = @ + SEDIMENTATION_STRENGTH]]
    ELSE [drop |-> d, mesh |-> erosion_mesh]

handle_sediment(d, erosion_mesh, s) ==
    LET at == <<d.x, d.y>> IN
    IF d.sediment <= d.sediment_capacity - EROSION_STRENGTH
    THEN [drop |-> [d EXCEPT !.sediment = @ + sediment_taken(d, s)],
          mesh |-> [erosion_mesh EXCEPT ![at].ero = @ + sediment_taken(d, s)]]
    ELSE IF d.sediment >= SEDIMENTATION_STRENGTH
    THEN [drop |-> [d EXCEPT !.sediment = @ - SEDIMENTATION_STRENGTH],
          mesh |-> [erosion_mesh EXCEPT ![at].dep = @ + SEDIMENTATION_STRENGTH]]
    ELSE [drop |-> d, mesh |-> erosion_mesh]

\* drop_all_sediment with the `/1.5` that the source has commented out
drop_part_of_sediment(d, erosion_mesh) ==
    [drop |-> [d EXCEPT !.sediment = 0],
     mesh |-> [erosion_mesh EXCEPT ![<<d.x, d.y>>].dep = @ + (d.sediment * 2) \div 3]]

drop_all_sediment(d, erosion_mesh) ==
    [drop |-> [d EXCEPT !.sediment = 0],
     mesh |-> [erosion_mesh EXCEPT ![<<d.x, d.y>>].dep = @ + d.sediment]]

\* the droplet is never moved
advance_nowhere(d, vec) == d

advance(d, vec) == [d EXCEPT !.x = @ + vec[1], !.y = @ + vec[2]]

LoopGuard == vector # <<0, 0>> /\ path_length < Max(W, H)

zeros(shape) == [c \in shape |-> [ero |-> 0, dep |-> 0]]

\* the mesh of the cycle before, used again
StaleMesh == mesh

\* the erosion_mesh a cycle starts with
ZeroMesh == zeros(Cells)

\* deposit without the cap
UncappedAmount(dep) == dep

DepositAmount(dep) == Min(MAX_SED_PER_TILE, dep)

ApplyMeshTo(m, erosion_mesh) ==
    [c \in Cells |->
        deposit(erode(m[c], erosion_mesh[c].ero), DepositAmount(erosion_mesh[c].dep))]

\* ------------------------------------------------------------ initial maps
\* Rock depths of the generated terrain, in whole units.  A level background
\* with a patch of three cells of arbitrary depths, and a terrain with a bent gully.
Background == 100
PatchHeights == {1, 100, 151}
Patch == {<<1, 1>>, <<1, 2>>, <<2, 2>>}

PatchTerrains ==
    {[c \in Cells |-> IF c \in Patch THEN p[c] ELSE Background] :
        p \in [Patch -> PatchHeights]}

GullyBed ==
    (<<1, 1>> :> 14) @@ (<<1, 2>> :> 14) @@ (<<2, 1>> :> 13) @@ (<<2, 2>> :> 12)
    @@ (<<2, 3>> :> 11) @@ (<<1, 3>> :> 10) @@ (<<0, 3>> :> 10)

GullyTerrain == [c \in Cells |-> IF c \in DOMAIN GullyBed THEN GullyBed[c] ELSE 20]

Terrains == PatchTerrains \cup {GullyTerrain}

MapOf(t) == [c \in Cells |-> TerrainColumn(t[c] * SCALE)]

NoDrop == ErosionDrop(0, 0)

\* The cells int(random.random() * shape) is let to choose.
SpawnCells == {<<0, 0>>, <<1, 1>>, <<1, 2>>, <<2, 2>>}

\* ----------------------------------------------------------------- actions
Init ==
    /\ map \in {MapOf(t) : t \in Terrains}
    /\ mesh = zeros(Cells)          \* no cycle has allocated a mesh yet
    /\ drop = NoDrop
    /\ vector = <<0, 0>>
    /\ steepness = 0
    /\ path_length = 0
    /\ pc = "erode_landscape"
    /\ cycle_i = 0
    /\ drop_i = 0
    /\ col = TerrainColumn(1 * SCALE)
    /\ iters = 0
    /\ picked = 0
    /\ deposited = 0
    /\ applied = 0
    /\ rendered = 0
    /\ quit_seen = FALSE

\* erode_landscape enters erosion_cycle, which allocates the mesh
StartCycle ==
    /\ pc = "erode_landscape"
    /\ cycle_i < Cycles
    /\ mesh' = ZeroMesh
    /\ drop_i' = 0
    /\ applied' = 0
    /\ pc' = "erosion_cycle"
    /\ UNCHANGED <<map, drop, vector, steepness, path_length, cycle_i, col,
                   iters, picked, deposited, rendered, quit_seen>>

\* erosion_cycle calls simulate_erosion_drop at a random cell
Spawn(x, y) ==
    /\ pc = "erosion_cycle"
    /\ drop_i < Iterations
    /\ drop' = ErosionDrop(x, y)
    /\ vector' = <<-1, -1>>
    /\ path_length' = 0
    /\ steepness' = 0
    /\ iters' = 0
    /\ picked' = 0
    /\ deposited' = 0
    /\ pc' = "simulate_erosion_drop"
    /\ UNCHANGED <<map, mesh, cycle_i, drop_i, col, applied, rendered, quit_seen>>

\* one iteration of the while loop of simulate_erosion_drop
Step ==
    /\ pc = "simulate_erosion_drop"
    /\ LoopGuard
    /\ iters <= W * H      \* the history counter is capped: a longer walk stops here for good
    /\ LET at == <<drop.x, drop.y>>
           vs == find_downhill_vector_steepness(map, drop.x, drop.y)
           hs == handle_sediment(drop, mesh, vs.steepness)
       IN  /\ vector' = vs.vector
           /\ steepness' = vs.steepness
           /\ mesh' = hs.mesh
           /\ drop' = advance(hs.drop, vs.vector)
           /\ picked' = picked + (hs.mesh[at].ero - mesh[at].ero)
           /\ deposited' = deposited + (hs.mesh[at].dep - mesh[at].dep)
    /\ iters' = iters + 1
    /\ UNCHANGED <<map, path_length, pc, cycle_i, drop_i, col, applied, rendered, quit_seen>>

\* the while loop ends; drop_all_sediment; simulate_erosion_drop returns
Finish ==
    /\ pc = "simulate_erosion_drop"
    /\ ~LoopGuard
    /\ LET at == <<drop.x, drop.y>>
           r == drop_all_sediment(drop, mesh)
       IN  /\ drop' = r.drop
           /\ mesh' = r.mesh
           /\ deposited' = deposited + (r.mesh[at].dep - mesh[at].dep)
    /\ drop_i' = drop_i + 1
    /\ pc' = "erosion_cycle"
    /\ UNCHANGED <<map, vector, steepness, path_length, cycle_i, col, iters,
                   picked, applied, rendered, quit_seen>>

\* the droplet loop is over: erosion_cycle applies the mesh and returns
ApplyMesh ==
    /\ pc = "erosion_cycle"
    /\ drop_i >= Iterations
    /\ map' = ApplyMeshTo(map, mesh)
    /\ applied' = applied + 1
    /\ pc' = "print_self"
    /\ UNCHANGED <<mesh, drop, vector, steepness, path_length, cycle_i, drop_i,
                   col, iters, picked, deposited, rendered, quit_seen>>

\* erode_landscape: print_self() and the progress line
Render ==
    /\ pc = "print_self"
    /\ rendered' = rendered + 1
    /\ pc' = "events"
    /\ UNCHANGED <<map, mesh, drop, vector, steepness, path_length, cycle_i,
                   drop_i, col, iters, picked, deposited, applied,
                   quit_seen>>

\* the loop of erode_landscape goes on deaf to QUIT
after_events_deaf(quit, i) ==
    IF i + 1 >= Cycles THEN "done" ELSE "erode_landscape"

\* where erode_landscape goes once the events of cycle i are read
after_events(quit, i) ==
    IF quit \/ i + 1 >= Cycles THEN "done" ELSE "erode_landscape"

\* erode_landscape: the pygame events are read; a QUIT among them returns
Poll(quit) ==
    /\ pc = "events"
    /\ quit_seen' = quit
    /\ cycle_i' = cycle_i + 1
    /\ pc' = after_events(quit, cycle_i)
    /\ UNCHANGED <<map, mesh, drop, vector, steepness, path_length, drop_i, col,
                   iters, picked, deposited, applied, rendered>>

Next ==
    \/ StartCycle
    \/ \E c \in SpawnCells : Spawn(c[1], c[2])
    \/ Step
    \/ Finish
    \/ ApplyMesh
    \/ Render
    \/ \E quit \in BOOLEAN : Poll(quit)

Spec == Init /\ [][Next]_vars

\* ------------------------------------------------------- one droplet's walk
\* The last droplet of a first cycle, spawned at any cell of the map, on a
\* level background with a 2 x 2 patch of arbitrary depths or on the gully.
WalkPatch == {<<1, 1>>, <<1, 2>>, <<2, 1>>, <<2, 2>>}

WalkTerrains ==
    {[c \in Cells |-> IF c \in WalkPatch THEN p[c] ELSE Background] :
        p \in [WalkPatch -> PatchHeights]} \cup {GullyTerrain}

WalkInit ==
    /\ map \in {MapOf(t) : t \in WalkTerrains}
    /\ mesh = ZeroMesh
    /\ drop = NoDrop
    /\ vector = <<0, 0>>
    /\ steepness = 0
    /\ path_length = 0
    /\ pc = "erosion_cycle"
    /\ cycle_i = 0
    /\ drop_i = Iterations - 1
    /\ col = TerrainColumn(1 * SCALE)
    /\ iters = 0
    /\ picked = 0
    /\ deposited = 0
    /\ applied = 0
    /\ rendered = 0
    /\ quit_seen = FALSE

WalkNext ==
    \/ \E c \in Cells : Spawn(c[1], c[2])
    \/ Step
    \/ Finish

\* the interpreter does not stop in the middle of simulate_erosion_drop
WalkSpec == WalkInit /\ [][WalkNext]_vars /\ WF_vars(WalkNext)

\* ------------------------------------------------- a TerrainColumn on its own
\* The depths handed to erode and deposit: 0, a quarter, a half, one, two.
Depths == {0, SCALE \div 4, SCALE \div 2, SCALE, 2 * SCALE}

ColInit ==
    /\ col \in {TerrainColumn(r * SCALE) : r \in 1 .. MaxRock}
    /\ map = MapOf([c \in Cells |-> Background])
    /\ mesh = zeros(Cells)
    /\ drop = NoDrop
    /\ vector = <<0, 0>>
    /\ steepness = 0
    /\ path_length = 0
    /\ pc = "column"
    /\ cycle_i = 0
    /\ drop_i = 0
    /\ iters = 0
    /\ picked = 0
    /\ deposited = 0
    /\ applied = 0
    /\ rendered = 0
    /\ quit_seen = FALSE

ColErode(d) ==
    /\ col' = erode(col, d)
    /\ UNCHANGED <<map, mesh, drop, vector, steepness, path_length, pc, cycle_i,
                   drop_i, iters, picked, deposited, applied, rendered, quit_seen>>

ColDeposit(d) ==
    /\ col.sediment_depth + d <= MaxSediment * SCALE
    /\ col' = deposit(col, d)
    /\ UNCHANGED <<map, mesh, drop, vector, steepness, path_length, pc, cycle_i,
                   drop_i, iters, picked, deposited, applied, rendered, quit_seen>>

ColNext == \E d \in Depths : ColErode(d) \/ ColDeposit(d)

ColSpec == ColInit /\ [][ColNext]_vars

\* ------------------------------------------------------------------ claims
Moving == pc = "simulate_erosion_drop" /\ LoopGuard     \* an iteration is due
Terminated == pc = "erosion_cycle" /\ drop_i > 0        \* the last droplet is over
Applying == pc = "erosion_cycle" /\ drop_i >= Iterations

WindowInMap(x, y) == x - 1 >= 0 /\ x + 1 < W /\ y - 1 >= 0 /\ y + 1 < H

\* C1: a column that starts with rock_depth >= 1 keeps rock_depth >= 1 through
\* any sequence of erode and deposit calls, fractional depths included.
C1_RockAtLeastOne == col.rock_depth >= 1 * SCALE

\* C2: simulate_erosion_drop makes at most max(width, height) iterations of its
\* loop for one droplet.
C2_PathLengthBounded == iters <= Max(W, H)

\* Ten times the penalized height of the k-th scanned cell of the window of (x, y).
TenTimesPenalized(m, x, y, k) ==
    LET i == ScanOrder[k][1]
        j == ScanOrder[k][2]
        h == height(m[<<x + i, y + j>>])
    IN  IF i # 0 /\ j # 0 THEN 14 * h ELSE 10 * h

EarliestLowest(m, x, y) ==
    LET K == 1 .. Len(ScanOrder)
        best == CHOOSE k \in K :
                    /\ \A l \in K : TenTimesPenalized(m, x, y, k) <= TenTimesPenalized(m, x, y, l)
                    /\ \A l \in 1 .. k - 1 :
                           TenTimesPenalized(m, x, y, l) > TenTimesPenalized(m, x, y, k)
    IN  ScanOrder[best]

\* C3: where the whole 3x3 window is inside the map, the vector found is the
\* offset of the earliest scanned cell of the lowest penalized height, and the
\* steepness is the height of the current cell minus the height of that cell
\* (on level ground at an inner cell: vector (-1, 0), steepness 0).
C3_EarliestLowestPenalized ==
    [][(Moving /\ WindowInMap(drop.x, drop.y)) =>
          LET v == EarliestLowest(map, drop.x, drop.y) IN
          /\ vector' = v
          /\ steepness' = height(map[<<drop.x, drop.y>>])
                            - height(map[<<drop.x + v[1], drop.y + v[2]>>])]_vars

\* C4: once a droplet has terminated, what it added to the deposition channel
\* (on its way and in the final dump) equals what it added to the erosion
\* channel, and it carries nothing.
C4_MassBalance == Terminated => (deposited = picked /\ drop.sediment = 0)

C4_Witness == Terminated /\ iters >= 2 /\ picked > DROP_CAPAC /\ deposited = picked

\* C5: every column has sediment_depth >= 0, in every state of every cycle.
C5_SedimentNonNegative == \A c \in Cells : map[c].sediment_depth >= 0

\* In the second cycle a column was eroded, got nothing deposited, and still
\* holds sediment: the erosion was taken out of the sediment of the first cycle.
C5_Witness ==
    /\ pc = "print_self" /\ cycle_i >= 1
    /\ \E c \in Cells : mesh[c].ero > 0 /\ mesh[c].dep = 0 /\ map[c].sediment_depth > 0

\* C6: every droplet that is simulated terminates: the loop is left and the
\* final dump is made.
C6_DropletTerminates == (pc = "simulate_erosion_drop") ~> Terminated

\* a droplet that walked over level ground to the border and terminated there
C6_Witness == Terminated /\ iters >= 3 /\ picked = 0

\* C7: one iteration applies exactly one branch of handle_sediment at the cell
\* the droplet is on: a pickup iff carried <= capacity - EROSION_STRENGTH, the
\* same amount going to carried and to the erosion channel; else a deposit of
\* SEDIMENTATION_STRENGTH iff carried >= SEDIMENTATION_STRENGTH, from carried to
\* the deposition channel; else nothing changes.
C7_OneBranch ==
    [][Moving =>
          LET at == <<drop.x, drop.y>>
              carried == drop.sediment
              others == \A c \in Cells \ {at} : mesh'[c] = mesh[c]
              pickup == carried <= drop.sediment_capacity - EROSION_STRENGTH
              settle == ~pickup /\ carried >= SEDIMENTATION_STRENGTH
          IN  /\ others
              /\ pickup =>
                    /\ mesh'[at].ero - mesh[at].ero = drop'.sediment - carried
                    /\ drop'.sediment >= carried
                    /\ mesh'[at].dep = mesh[at].dep
              /\ settle =>
                    /\ drop'.sediment = carried - SEDIMENTATION_STRENGTH
                    /\ mesh'[at].dep = mesh[at].dep + SEDIMENTATION_STRENGTH
                    /\ mesh'[at].ero = mesh[at].ero
              /\ (~pickup /\ ~settle) =>
                    /\ drop'.sediment = carried
                    /\ mesh'[at] = mesh[at]]_vars

\* a droplet on its way that has picked up sediment and has made one deposit
C7_Witness ==
    /\ pc = "simulate_erosion_drop"
    /\ iters >= 2
    /\ picked > 0
    /\ deposited = SEDIMENTATION_STRENGTH
    /\ drop.sediment = picked - SEDIMENTATION_STRENGTH

\* C8: evaluated at a cell whose 3x3 window is not wholly inside the map, the
\* vector is (0, 0) and the steepness 0 whatever the heights; the droplet stays
\* where it is and its loop ends.
C8_BorderIsSink ==
    [][(Moving /\ ~WindowInMap(drop.x, drop.y)) =>
          /\ vector' = <<0, 0>>
          /\ steepness' = 0
          /\ drop'.x = drop.x /\ drop'.y = drop.y
          /\ ~LoopGuard']_vars

\* a droplet evaluated at a border cell that has a lower cell next to it
C8_Witness ==
    /\ pc = "simulate_erosion_drop" /\ iters >= 1 /\ vector = <<0, 0>>
    /\ ~WindowInMap(drop.x, drop.y)
    /\ \E c \in Cells :
          /\ c[1] - drop.x \in {-1, 0, 1} /\ c[2] - drop.y \in {-1, 0, 1}
          /\ 2 * height(map[c]) < height(map[<<drop.x, drop.y>>])

\* C9: when the mesh is applied, each column's sediment grows by
\* min(MAX_SED_PER_TILE, deposition entry) over what erode left, so by no more
\* than MAX_SED_PER_TILE.
C9_DepositCapped ==
    [][Applying =>
          \A c \in Cells :
              LET left == Max(0, map[c].sediment_depth - mesh[c].ero) IN
              /\ map'[c].sediment_depth = left + Min(MAX_SED_PER_TILE, mesh[c].dep)
              /\ map'[c].sediment_depth - left <= MAX_SED_PER_TILE]_vars

\* the first cycle left more than MAX_SED_PER_TILE in the mesh for a column
C9_Witness ==
    /\ pc = "print_self" /\ cycle_i = 0
    /\ \E c \in Cells : mesh[c].dep > MAX_SED_PER_TILE
                         /\ map[c].sediment_depth = MAX_SED_PER_TILE

\* C10: no column changes while the droplets of a cycle are simulated (a droplet
\* changes the mesh and itself only), every cycle starts with an all-zero mesh,
\* and the mesh is applied once per cycle, after the last droplet.
C10_MeshThenMap ==
    /\ [](/\ pc \in {"erosion_cycle", "simulate_erosion_drop"} => applied = 0
          /\ pc \in {"print_self", "events"} => applied = 1)
    /\ [][/\ (pc = "simulate_erosion_drop" \/ (pc = "erosion_cycle" /\ drop_i < Iterations))
                => UNCHANGED <<map, col, cycle_i, applied, rendered, quit_seen>>
          /\ pc = "erode_landscape"
                => \A c \in Cells : mesh'[c].ero = 0 /\ mesh'[c].dep = 0
          /\ (map' # map \/ applied' > applied)
                => (pc = "erosion_cycle" /\ drop_i = Iterations /\ applied = 0
                    /\ pc' = "print_self" /\ applied' = 1)]_vars

\* the second cycle applied a mesh that holds erosion
C10_Witness ==
    /\ pc = "print_self" /\ cycle_i >= 1 /\ applied = 1
    /\ \E c \in Cells : mesh[c].ero > 0

\* C11: erode_landscape runs at most `cycles` cycles; each completed cycle is
\* followed by one print_self and then one reading of the events; a QUIT read
\* there makes it return with the map as the completed cycles left it, no
\* further cycle is started, and it returns nowhere but after such a reading.
C11_QuitBetweenCycles ==
    /\ [](/\ cycle_i <= Cycles /\ rendered <= Cycles
          /\ rendered = IF pc = "events" THEN cycle_i + 1 ELSE cycle_i)
    /\ [][/\ pc = "print_self" => (pc' = "events" /\ rendered' = rendered + 1)
          /\ pc \in {"print_self", "events"} => map' = map
          /\ (pc = "events" /\ quit_seen') => pc' = "done"
          /\ (pc' = "done" \/ quit_seen' # quit_seen) => pc = "events"
          /\ pc # "done"]_vars

\* a QUIT read after the first of several cycles: erode_landscape has returned,
\* one cycle was rendered and its erosion is in the map
C11_Witness ==
    /\ pc = "done" /\ quit_seen /\ cycle_i = 1 /\ cycle_i < Cycles /\ rendered = 1
    /\ \E c \in Cells : mesh[c].ero > 0 /\ map[c].rock_depth + mesh[c].ero \in
                             {h * SCALE : h \in PatchHeights \cup {Background}}

\* C12: where the whole 3x3 window is inside the map, the cell the vector
\* points to is no higher than the cell the droplet is on: the steepness is
\* >= 0, the droplet does not move uphill, and nothing negative is added to the
\* erosion channel.
C12_NeverUphill ==
    [][Moving =>
          LET at == <<drop.x, drop.y>>
              to == <<drop.x + vector'[1], drop.y + vector'[2]>>
          IN  /\ steepness' >= 0
              /\ mesh'[at].ero >= mesh[at].ero
              /\ WindowInMap(drop.x, drop.y) =>
                    /\ to = <<drop'.x, drop'.y>>
                    /\ height(map[to]) <= height(map[at])
                    /\ steepness' = height(map[at]) - height(map[to])]_vars

\* a droplet that has just stayed on an inner cell with a higher cell scanned
\* before it and no lower cell around it
C12_Witness ==
    /\ pc = "simulate_erosion_drop" /\ iters >= 1
    /\ WindowInMap(drop.x, drop.y)
    /\ vector = <<0, 0>> /\ steepness = 0
    /\ height(map[<<drop.x - 1, drop.y - 1>>]) > height(map[<<drop.x, drop.y>>])

\* C13: at every step of every droplet's walk 0 <= carried <= capacity: no
\* pickup raises the carried sediment above the capacity, whatever the
\* steepness, and no deposit lowers it below 0.
C13_CarriedWithinCapacity ==
    0 <= drop.sediment /\ drop.sediment <= drop.sediment_capacity

=============================================================================
